---- MODULE Spec2Model ----
(***************************************************************************)
(* Model of tide-tracing-middleware (src/src/lib.rs): the access-log       *)
(* format compiler, the two resolution phases, and the StreamLog body      *)
(* wrapper that counts bytes and emits the log line when it is dropped.    *)
(*                                                                         *)
(* Text is a sequence of one-character strings.  An Option is a sequence   *)
(* of length 0 (None) or 1 (Some).                                         *)
(***************************************************************************)
EXTENDS Integers, Sequences, FiniteSets, TLC

\* ------------------------------------------------------------------ bounds
MaxBody   == 3     \* longest handler body, in bytes
MaxPolls  == 3     \* most polls of the handler body per request
MaxUserBuf == 2    \* largest buffer the consumer reads with
BufCap    == 2     \* capacity of the BufReader around StreamLog (scaled)
MaxSetup  == 1     \* most builder calls between new() and serving
MaxResolveSetup == 2  \* the same, for the formats of the narrow specifications
MaxFmtLen == 5     \* longest format string of the exhaustive compilation

\* ------------------------------------------------------------ text helpers
None == <<>>
Some(v) == <<v>>
IsSome(o) == Len(o) = 1
Unwrap(o) == o[1]

RECURSIVE Concat(_)
Concat(ss) == IF ss = <<>> THEN <<>> ELSE Head(ss) \o Concat(Tail(ss))

Min(a, b) == IF a < b THEN a ELSE b

DigitChar(d) == <<"0","1","2","3","4","5","6","7","8","9">>[d + 1]

\* Display for unsigned integers (usize, u16)
RECURSIVE ToDigits(_)
ToDigits(n) == IF n < 10 THEN <<DigitChar(n)>>
               ELSE ToDigits(n \div 10) \o <<DigitChar(n % 10)>>

Upper == <<"A","B","C","D","E","F","G","H","I","J","K","L","M",
           "N","O","P","Q","R","S","T","U","V","W","X","Y","Z">>
Lower == <<"a","b","c","d","e","f","g","h","i","j","k","l","m",
           "n","o","p","q","r","s","t","u","v","w","x","y","z">>
Digits == {"0","1","2","3","4","5","6","7","8","9"}

\* the character class [A-Za-z0-9\-_] of the directive regex
NameChars == {Upper[i] : i \in 1..26} \cup {Lower[i] : i \in 1..26}
             \cup Digits \cup {"-", "_"}

\* the character class [atPrUsbTDMVQ] of the directive regex
BareClass == {"a","t","P","r","U","s","b","T","D","M","V","Q"}

\* HeaderName::try_from lower-cases the ASCII name
LowerChar(c) == IF \E i \in 1..26 : Upper[i] = c
                THEN Lower[CHOOSE i \in 1..26 : Upper[i] = c] ELSE c
HeaderName(key) == [i \in 1..Len(key) |-> LowerChar(key[i])]

\* ------------------------------------------------------------- FormatText
Tok(kind, text, fn) == [kind |-> kind, text |-> text, fn |-> fn]
Str(text)           == Tok("Str", text, None)
Unit(kind)          == Tok(kind, <<>>, None)

\* ------------------------------------------------------------ Format::new
\* first position at or after j that does not hold a name character
RECURSIVE NameEnd(_, _)
NameEnd(s, j) == IF j <= Len(s) /\ s[j] \in NameChars THEN NameEnd(s, j + 1) ELSE j

CharAt(s, i) == IF i >= 1 /\ i <= Len(s) THEN s[i] ELSE ""

\* the leftmost-first match of
\*   %(\{([A-Za-z0-9\-_]+)\}([aioe]|xi|xo)|[atPrUsbTDMVQ]?)
\* at position i, where s[i] = "%"
MatchAt(s, i) ==
  LET je     == NameEnd(s, i + 2)
      nameOk == CharAt(s, i + 1) = "{" /\ je > i + 2 /\ CharAt(s, je) = "}"
      c1     == CharAt(s, je + 1)
      c2     == CharAt(s, je + 2)
      g3     == IF c1 \in {"a","i","o","e"} THEN <<c1>>
                ELSE IF c1 = "x" /\ c2 \in {"i","o"} THEN <<c1, c2>>
                ELSE <<>>
  IN IF nameOk /\ g3 /= <<>>
     THEN [stop |-> je + 1 + Len(g3), g1 |-> SubSeq(s, i + 1, je + Len(g3)),
           g2 |-> Some(SubSeq(s, i + 2, je - 1)), g3 |-> g3]
     ELSE IF CharAt(s, i + 1) \in BareClass
     THEN [stop |-> i + 2, g1 |-> <<s[i + 1]>>, g2 |-> None, g3 |-> <<>>]
     ELSE [stop |-> i + 1, g1 |-> <<>>, g2 |-> None, g3 |-> <<>>]

\* the token pushed for one match; kind "Unreachable" stands for the
\* unreachable!() panic of the braced "a" form with a name other than r
MatchToken(m) ==
  IF IsSome(m.g2)
  THEN LET key == Unwrap(m.g2) IN
       CASE m.g3 = <<"a">> -> IF key = <<"r">> THEN Unit("RealIPRemoteAddr")
                               ELSE Unit("Unreachable")
         [] m.g3 = <<"i">> -> Tok("RequestHeader", HeaderName(key), None)
         [] m.g3 = <<"o">> -> Tok("ResponseHeader", HeaderName(key), None)
         [] m.g3 = <<"e">> -> Tok("EnvironHeader", key, None)
         [] m.g3 = <<"x","i">> -> Tok("CustomRequest", key, None)
         [] m.g3 = <<"x","o">> -> Tok("CustomResponse", key, None)
         [] OTHER -> Unit("Unreachable")
  ELSE CASE m.g1 = <<"%">> -> Unit("Percent")
         [] m.g1 = <<"a">> -> Unit("RemoteAddr")
         [] m.g1 = <<"t">> -> Unit("RequestTime")
         [] m.g1 = <<"r">> -> Unit("RequestLine")
         [] m.g1 = <<"s">> -> Unit("ResponseStatus")
         [] m.g1 = <<"b">> -> Unit("ResponseSize")
         [] m.g1 = <<"M">> -> Unit("Method")
         [] m.g1 = <<"V">> -> Unit("Version")
         [] m.g1 = <<"Q">> -> Unit("Query")
         [] m.g1 = <<"U">> -> Unit("UrlPath")
         [] m.g1 = <<"T">> -> Unit("Time")
         [] m.g1 = <<"D">> -> Unit("TimeMillis")
         [] OTHER -> Str(m.g1)

\* a scan that does not push the text left after the last match
RECURSIVE FormatScan_drops_tail(_, _, _, _)
FormatScan_drops_tail(s, i, idx, results) ==
  IF i > Len(s)
  THEN results
  ELSE IF s[i] /= "%" THEN FormatScan_drops_tail(s, i + 1, idx, results)
  ELSE LET m  == MatchAt(s, i)
           r1 == IF idx /= i THEN Append(results, Str(SubSeq(s, idx, i - 1)))
                 ELSE results
       IN FormatScan_drops_tail(s, m.stop, m.stop, Append(r1, MatchToken(m)))

\* the captures_iter loop: i is the search position, idx the end of the
\* previous match
RECURSIVE FormatScan(_, _, _, _)
FormatScan(s, i, idx, results) ==
  IF i > Len(s)
  THEN IF idx /= Len(s) + 1 THEN Append(results, Str(SubSeq(s, idx, Len(s))))
       ELSE results
  ELSE IF s[i] /= "%" THEN FormatScan(s, i + 1, idx, results)
  ELSE LET m  == MatchAt(s, i)
           r1 == IF idx /= i THEN Append(results, Str(SubSeq(s, idx, i - 1)))
                 ELSE results
       IN FormatScan(s, m.stop, m.stop, Append(r1, MatchToken(m)))

FormatNew(s) == FormatScan(s, 1, 1, <<>>)

\* the same loop, keeping for each push the part of s it was made from:
\* s[idx..pos] for a literal run, m.start()..m.end() for a match
RECURSIVE SpanScan(_, _, _, _)
SpanScan(s, i, idx, spans) ==
  IF i > Len(s)
  THEN IF idx /= Len(s) + 1 THEN Append(spans, [from |-> idx, to |-> Len(s)])
       ELSE spans
  ELSE IF s[i] /= "%" THEN SpanScan(s, i + 1, idx, spans)
  ELSE LET m  == MatchAt(s, i)
           r1 == IF idx /= i THEN Append(spans, [from |-> idx, to |-> i - 1])
                 ELSE spans
       IN SpanScan(s, m.stop, m.stop, Append(r1, [from |-> i, to |-> m.stop - 1]))

FormatSpans(s) == SpanScan(s, 1, 1, <<>>)

\* Format::new panics when a match arm reaches unreachable!()
FormatPanics(s) == \E k \in 1..Len(FormatNew(s)) : FormatNew(s)[k].kind = "Unreachable"

\* ------------------------------------------------- requests and responses
\* header lookup by name: None when absent, Some(list of values) otherwise
Header(headers, name) == IF name \in DOMAIN headers THEN headers[name] ELSE None

\* user-supplied resolvers, named by what they return
CallRequestFn(f, req) ==
  CASE f = "fn_method" -> req.method
    [] f = "fn_path"   -> req.path
    [] OTHER           -> <<>>

CallResponseFn(f, resp) ==
  CASE f = "fn_status" -> ToDigits(resp.status)
    [] OTHER           -> <<>>

\* std::env::var at render time
EnvVar(name) == IF name = <<"E">> THEN Some(<<"v">>) ELSE None

\* the clock counts ticks of TickMicros microseconds
TickMicros == 1500

\* now.format("%Y-%m-%dT%H:%M:%S"): second resolution; the calendar part is
\* abstracted to the whole seconds since the epoch of the model
Timestamp(now) == <<"@">> \o ToDigits((now * TickMicros) \div 1000000)

\* "{:.6}": n as exactly w digits, zero padded
RECURSIVE PadDigits(_, _)
PadDigits(n, w) == IF w = 0 THEN <<>>
                   ELSE PadDigits(n \div 10, w - 1) \o <<DigitChar(n % 10)>>

\* as_seconds_f64 printed with six decimals
SecondsText(ticks) ==
  LET us == ticks * TickMicros
  IN ToDigits(us \div 1000000) \o <<".">> \o PadDigits(us % 1000000, 6)

\* whole_nanoseconds / 1_000_000.0 printed with six decimals
MillisText(ticks) ==
  LET ns == ticks * TickMicros * 1000
  IN ToDigits(ns \div 1000000) \o <<".">> \o PadDigits(ns % 1000000, 6)

\* ------------------------------------------------ FormatText::render_request
\* an unknown version rendered as nothing
VersionOr_empty(req) == IF IsSome(req.version) THEN Unwrap(req.version) ELSE <<>>

\* map_or("?", ..): the version, or "?" when the request has none
VersionOr(req) == IF IsSome(req.version) THEN Unwrap(req.version) ELSE <<"?">>

\* the RequestHeader arm with the empty value list treated as absent
RequestHeaderArm_empty_as_absent(unit, req) ==
  LET val == Header(req.headers, unit.text)
  IN Str(IF IsSome(val) /\ Len(Unwrap(val)) > 0 THEN Unwrap(val)[1] ELSE <<"-">>)

\* the RequestHeader arm writing the value into the unit without turning
\* the unit into a Str
RequestHeaderArm_keeps_variant(unit, req) ==
  LET val == Header(req.headers, unit.text)
  IN Tok("RequestHeader",
         IF IsSome(val)
         THEN IF Len(Unwrap(val)) > 0 THEN Unwrap(val)[1] ELSE <<"_">>
         ELSE <<"-">>,
         None)

\* the RequestHeader arm of the match
RequestHeaderArm(unit, req) ==
  LET val == Header(req.headers, unit.text)
  IN Str(IF IsSome(val)
         THEN IF Len(Unwrap(val)) > 0 THEN Unwrap(val)[1] ELSE <<"_">>
         ELSE <<"-">>)

render_request(unit, now, req) ==
  CASE unit.kind = "RequestLine" ->
         IF IsSome(req.query)
         THEN Str(req.method \o <<" ">> \o req.path \o <<"?">> \o Unwrap(req.query)
                  \o <<" ">> \o VersionOr(req))
         ELSE Str(req.method \o <<" ">> \o req.path \o <<" ">> \o VersionOr(req))
    [] unit.kind = "Method"  -> Str(req.method)
    [] unit.kind = "Version" -> Str(VersionOr(req))
    [] unit.kind = "Query"   -> Str(IF IsSome(req.query) THEN Unwrap(req.query) ELSE <<"-">>)
    [] unit.kind = "UrlPath" -> Str(req.path)
    [] unit.kind = "RequestTime" -> Str(Timestamp(now))
    [] unit.kind = "RequestHeader" -> RequestHeaderArm(unit, req)
    [] unit.kind = "RemoteAddr" ->
         Str(IF IsSome(req.remote) THEN Unwrap(req.remote) ELSE <<"-">>)
    [] unit.kind = "RealIPRemoteAddr" ->
         Str(IF IsSome(req.peer_addr) THEN Unwrap(req.peer_addr) ELSE <<"-">>)
    [] unit.kind = "CustomRequest" ->
         Str(IF IsSome(unit.fn) THEN CallRequestFn(Unwrap(unit.fn), req) ELSE <<"-">>)
    [] OTHER -> unit

\* ----------------------------------------------- FormatText::render_response
render_response(unit, resp) ==
  CASE unit.kind = "ResponseStatus" -> Str(ToDigits(resp.status))
    [] unit.kind = "ResponseHeader" ->
         LET val == Header(resp.headers, unit.text)
         IN Str(IF IsSome(val)
                THEN IF Len(Unwrap(val)) > 0 THEN Unwrap(val)[1] ELSE <<"-">>
                ELSE <<"-">>)
    [] unit.kind = "CustomResponse" ->
         Str(IF IsSome(unit.fn) THEN CallResponseFn(Unwrap(unit.fn), resp) ELSE <<"-">>)
    [] OTHER -> unit

\* ------------------------------------------------------- FormatText::render
\* a render that writes nothing for an environment variable that is not set
render_env_unset_empty(unit, size, entry_time, drop_time) ==
  CASE unit.kind = "Str"          -> unit.text
    [] unit.kind = "Percent"      -> <<"%">>
    [] unit.kind = "ResponseSize" -> ToDigits(size)
    [] unit.kind = "Time"         -> SecondsText(drop_time - entry_time)
    [] unit.kind = "TimeMillis"   -> MillisText(drop_time - entry_time)
    [] unit.kind = "EnvironHeader" ->
         IF IsSome(EnvVar(unit.text)) THEN Unwrap(EnvVar(unit.text)) ELSE <<>>
    [] OTHER -> <<>>

\* the text one unit writes at drop time; unresolved request and response
\* variants write nothing
render(unit, size, entry_time, drop_time) ==
  CASE unit.kind = "Str"          -> unit.text
    [] unit.kind = "Percent"      -> <<"%">>
    [] unit.kind = "ResponseSize" -> ToDigits(size)
    [] unit.kind = "Time"         -> SecondsText(drop_time - entry_time)
    [] unit.kind = "TimeMillis"   -> MillisText(drop_time - entry_time)
    [] unit.kind = "EnvironHeader" ->
         IF IsSome(EnvVar(unit.text)) THEN Unwrap(EnvVar(unit.text)) ELSE <<"-">>
    [] OTHER -> <<>>

\* the closure of StreamLog::drop: every unit rendered in order
RenderLine(format, size, entry_time, drop_time) ==
  Concat([k \in 1..Len(format) |-> render(format[k], size, entry_time, drop_time)])

\* ---------------------------------------------------------- exclusion
\* a pattern of the RegexSet: a literal, optionally anchored with ^ and $
Pattern(from_start, lit, to_end) == [from_start |-> from_start, lit |-> lit, to_end |-> to_end]

\* Regex::is_match: an unanchored search for the pattern in the path
RegexIsMatch(pat, path) ==
  \E i \in 1..(Len(path) - Len(pat.lit) + 1) :
     /\ SubSeq(path, i, i + Len(pat.lit) - 1) = pat.lit
     /\ pat.from_start => i = 1
     /\ pat.to_end => i + Len(pat.lit) - 1 = Len(path)

\* RegexSet::is_match: some pattern of the set matches
RegexSetIsMatch(patterns, path) ==
  \E k \in 1..Len(patterns) : RegexIsMatch(patterns[k], path)

\* the gate with the pattern set left out
IsExcluded_exact_only(cfg, path) == path \in cfg.exclude

\* the gate at the head of handle()
IsExcluded(cfg, path) ==
  path \in cfg.exclude \/ RegexSetIsMatch(cfg.exclude_regex, path)

\* ------------------------------------------------------------------ state
\* the requests in flight; OneReq is the single request of the sequential specs
ReqIds == {1, 2}
OneReq == {1}

VARIABLES
  source,    \* the format string TracingMiddleware::new was given
  phase,     \* "setup", "serving", or "panicked" (Format::new hit unreachable!())
  inner,     \* Inner: format, exclude, exclude_regex, gen_tracing_span
  calls,     \* builder calls made so far, in order
  clock,     \* OffsetDateTime::now_utc(), in ticks
  pc,        \* per request: where handle() and the returned body stand
  request,   \* per request: the Request handed to handle()
  local,     \* per request: locals of handle() alive across the await
  handled,   \* per request: Option of the Response the handler yielded
  response,  \* per request: Option of the Response handle() returned
  stream,    \* per request: Option of the StreamLog inside the new body
  reader,    \* per request: bytes held by the BufReader around StreamLog
  got,       \* per request: bytes the consumer has received so far
  polls,     \* per request: results StreamLog::poll_read has returned
  returned,  \* per request: Option of what the last read of the new body gave
  span_calls,\* the requests gen_tracing_span's function was called with, in order
  log        \* records emitted through info!()

vars == <<source, phase, inner, calls, clock, pc, request, local, handled,
          response, stream, reader, got, polls, returned, span_calls, log>>

\* TracingMiddleware::new
New(s) == [format |-> FormatNew(s), exclude |-> {}, exclude_regex |-> <<>>,
           gen_tracing_span |-> None]

\* header names the modelled requests and responses may carry
KnownHeaders == {<<"h">>, <<"u","s","e","r","-","a","g","e","n","t">>}
NoHeaders == [n \in KnownHeaders |-> None]

NoRequest == [method |-> <<>>, path |-> <<>>, query |-> None, version |-> None,
              headers |-> NoHeaders, remote |-> None, peer_addr |-> None]
NoLocal == [now |-> 0, format |-> <<>>, span |-> None]

InitWith(sources) ==
  /\ \E s \in sources :
        /\ source = s
        /\ inner = New(s)
        /\ phase = IF FormatPanics(s) THEN "panicked" ELSE "setup"
  /\ calls = <<>>
  /\ clock = 0
  /\ pc = [r \in ReqIds |-> "Idle"]
  /\ request = [r \in ReqIds |-> NoRequest]
  /\ local = [r \in ReqIds |-> NoLocal]
  /\ handled = [r \in ReqIds |-> None]
  /\ response = [r \in ReqIds |-> None]
  /\ stream = [r \in ReqIds |-> None]
  /\ reader = [r \in ReqIds |-> <<>>]
  /\ got = [r \in ReqIds |-> <<>>]
  /\ polls = [r \in ReqIds |-> <<>>]
  /\ returned = [r \in ReqIds |-> None]
  /\ span_calls = <<>>
  /\ log = <<>>

perRequest == <<pc, request, local, handled, response, stream, reader, got, polls,
               returned, span_calls, log>>

\* ---------------------------------------------------------- builder calls
Call(method, arg) == [method |-> method, arg |-> arg]

\* "%{L}xi %{L}xi": one request label used by two units
DupLabelSource ==
  <<"%","{","L","}","x","i"," ","%","{","L","}","x","i">>

\* "%a %t %r %M %V %Q %U %{h}i %{L}xi %{r}a %s %{h}o %{L}xo %{X}e %b %T":
\* a unit of every variant that can meet missing data, and of both phases
AllKindsSource ==
  <<"%","a"," ","%","t"," ","%","r"," ","%","M"," ","%","V"," ","%","Q"," ","%","U"," ",
    "%","{","h","}","i"," ","%","{","L","}","x","i"," ","%","{","r","}","a"," ",
    "%","s"," ","%","{","h","}","o"," ","%","{","L","}","x","o"," ",
    "%","{","X","}","e"," ","%","b"," ","%","T">>

ResolveSources == {DupLabelSource, AllKindsSource}

\* "%U %s %b %T": a request field, a response field, the counter and the
\* elapsed time, for requests in flight together
ConcSources == { <<"%","U"," ","%","s"," ","%","b"," ","%","T">> }

\* how long a builder chain is followed, by the format it configures
SetupLimit ==
  IF source \in ResolveSources \cup ConcSources THEN MaxResolveSetup ELSE MaxSetup

Builder(call, next_inner) ==
  /\ phase = "setup"
  /\ Len(calls) < SetupLimit
  /\ calls' = Append(calls, call)
  /\ inner' = next_inner
  /\ UNCHANGED <<source, phase, clock, perRequest>>

exclude(path) ==
  Builder(Call("exclude", path), [inner EXCEPT !.exclude = @ \cup {path}])

exclude_regex(pat) ==
  Builder(Call("exclude_regex", pat.lit), [inner EXCEPT !.exclude_regex = Append(@, pat)])

\* a lookup by kind alone: the first unit of that kind, whatever its label
FindUnit_any_label(fmt, kind, label) ==
  IF \E k \in 1..Len(fmt) : fmt[k].kind = kind
  THEN CHOOSE k \in 1..Len(fmt) :
         /\ fmt[k].kind = kind
         /\ \A j \in 1..(k - 1) : fmt[j].kind /= kind
  ELSE 0

\* iter_mut().find(): the first unit of that kind with that label, 0 if none
FindUnit(fmt, kind, label) ==
  IF \E k \in 1..Len(fmt) : fmt[k].kind = kind /\ fmt[k].text = label
  THEN CHOOSE k \in 1..Len(fmt) :
         /\ fmt[k].kind = kind /\ fmt[k].text = label
         /\ \A j \in 1..(k - 1) : ~(fmt[j].kind = kind /\ fmt[j].text = label)
  ELSE 0

Replace(fmt, kind, label, f) ==
  LET k == FindUnit(fmt, kind, label)
  IN IF k = 0 THEN fmt ELSE [fmt EXCEPT ![k].fn = Some(f)]

custom_request_replace(label, f) ==
  Builder(Call("custom_request_replace", label),
          [inner EXCEPT !.format = Replace(@, "CustomRequest", label, f)])

custom_response_replace(label, f) ==
  Builder(Call("custom_response_replace", label),
          [inner EXCEPT !.format = Replace(@, "CustomResponse", label, f)])

gen_tracing_span(f) ==
  Builder(Call("gen_tracing_span", <<>>), [inner EXCEPT !.gen_tracing_span = Some(f)])

\* app.with(middleware): the configuration is frozen and requests may flow
Serve ==
  /\ phase = "setup"
  /\ phase' = "serving"
  /\ UNCHANGED <<source, inner, calls, clock, perRequest>>

\* ----------------------------------------------------------------- handle
\* a handle() that clones the template and goes to the handler without
\* running the request phase over the clone
HandleStart_skips_request_phase(r, req) ==
  /\ phase = "serving"
  /\ pc[r] = "Idle"
  /\ request' = [request EXCEPT ![r] = req]
  /\ IF IsExcluded(inner, req.path)
     THEN /\ pc' = [pc EXCEPT ![r] = "BypassRunning"]
          /\ UNCHANGED <<local, span_calls>>
     ELSE /\ pc' = [pc EXCEPT ![r] = "HandlerRunning"]
          /\ span_calls' = IF IsSome(inner.gen_tracing_span)
                           THEN Append(span_calls, r) ELSE span_calls
          /\ local' = [local EXCEPT ![r] =
               [now    |-> clock,
                format |-> inner.format,
                span   |-> IF IsSome(inner.gen_tracing_span)
                           THEN Some(Len(span_calls) + 1) ELSE None]]
  /\ UNCHANGED <<source, phase, inner, calls, clock, handled, response, stream, reader,
                 got, polls, returned, log>>

\* a handle() that runs the request phase over the shared template rather
\* than over a clone of it
HandleStart_resolves_shared(r, req) ==
  /\ phase = "serving"
  /\ pc[r] = "Idle"
  /\ request' = [request EXCEPT ![r] = req]
  /\ IF IsExcluded(inner, req.path)
     THEN /\ pc' = [pc EXCEPT ![r] = "BypassRunning"]
          /\ UNCHANGED <<local, span_calls, inner>>
     ELSE /\ pc' = [pc EXCEPT ![r] = "HandlerRunning"]
          /\ span_calls' = IF IsSome(inner.gen_tracing_span)
                           THEN Append(span_calls, r) ELSE span_calls
          /\ inner' = [inner EXCEPT !.format =
               [k \in 1..Len(inner.format) |-> render_request(inner.format[k], clock, req)]]
          /\ local' = [local EXCEPT ![r] =
               [now    |-> clock,
                format |-> inner'.format,
                span   |-> IF IsSome(inner.gen_tracing_span)
                           THEN Some(Len(span_calls) + 1) ELSE None]]
  /\ UNCHANGED <<source, phase, calls, clock, handled, response, stream, reader,
                 got, polls, returned, log>>

\* handle() up to the await of next.run(): the exclusion gate, the entry
\* time, the clone of the template, the request phase and the span
HandleStart(r, req) ==
  /\ phase = "serving"
  /\ pc[r] = "Idle"
  /\ request' = [request EXCEPT ![r] = req]
  /\ IF IsExcluded(inner, req.path)
     THEN /\ pc' = [pc EXCEPT ![r] = "BypassRunning"]
          /\ UNCHANGED <<local, span_calls>>
     ELSE /\ pc' = [pc EXCEPT ![r] = "HandlerRunning"]
          /\ span_calls' = IF IsSome(inner.gen_tracing_span)
                           THEN Append(span_calls, r) ELSE span_calls
          /\ local' = [local EXCEPT ![r] =
               [now    |-> clock,
                format |-> [k \in 1..Len(inner.format) |->
                              render_request(inner.format[k], clock, req)],
                \* the Span f(&request) returned, named by the call that made it
                span   |-> IF IsSome(inner.gen_tracing_span)
                           THEN Some(Len(span_calls) + 1) ELSE None]]
  /\ UNCHANGED <<source, phase, inner, calls, clock, handled, response, stream, reader,
                 got, polls, returned, log>>

\* a new body built without the length of the body it wraps
WrappedResponse_unknown_len(resp) ==
  [status |-> resp.status, headers |-> resp.headers, len |-> None, mime |-> resp.mime,
   body |-> <<>>, wrapped |-> TRUE]

\* resp after set_body(new_body): the new body is built with the length
\* and the mime of the body taken out; its bytes come through the StreamLog
WrappedResponse(resp) ==
  [status |-> resp.status, headers |-> resp.headers, len |-> resp.len, mime |-> resp.mime,
   body |-> <<>>, wrapped |-> TRUE]

\* a handle() that wraps the body without running the response phase
HandlerReturn_skips_response_phase(r, resp) ==
  /\ pc[r] \in {"HandlerRunning", "BypassRunning"}
  /\ handled' = [handled EXCEPT ![r] = Some(resp)]
  /\ IF pc[r] = "BypassRunning"
     THEN /\ pc' = [pc EXCEPT ![r] = "Bypassed"]
          /\ response' = [response EXCEPT ![r] =
               Some([status |-> resp.status, headers |-> resp.headers,
                     len |-> resp.len, mime |-> resp.mime,
                     body |-> resp.body, wrapped |-> FALSE])]
          /\ UNCHANGED <<local, stream>>
     ELSE /\ pc' = [pc EXCEPT ![r] = "Streaming"]
          /\ stream' = [stream EXCEPT ![r] =
               Some([body   |-> resp.body,
                     format |-> local[r].format,
                     size   |-> 0,
                     time   |-> local[r].now,
                     span   |-> local[r].span])]
          /\ response' = [response EXCEPT ![r] = Some(WrappedResponse(resp))]
          /\ local' = [local EXCEPT ![r] = NoLocal]
  /\ UNCHANGED <<source, phase, inner, calls, clock, request, reader, got, polls,
                 returned, span_calls, log>>

\* the downstream handler yields resp; handle() runs the response phase,
\* takes the body and puts it back wrapped, or (bypass) returns resp as is
HandlerReturn(r, resp) ==
  /\ pc[r] \in {"HandlerRunning", "BypassRunning"}
  /\ handled' = [handled EXCEPT ![r] = Some(resp)]
  /\ IF pc[r] = "BypassRunning"
     THEN /\ pc' = [pc EXCEPT ![r] = "Bypassed"]
          /\ response' = [response EXCEPT ![r] =
               Some([status |-> resp.status, headers |-> resp.headers,
                     len |-> resp.len, mime |-> resp.mime,
                     body |-> resp.body, wrapped |-> FALSE])]
          /\ UNCHANGED <<local, stream>>
     ELSE /\ pc' = [pc EXCEPT ![r] = "Streaming"]
          /\ stream' = [stream EXCEPT ![r] =
               Some([body   |-> resp.body,
                     format |-> [k \in 1..Len(local[r].format) |->
                                   render_response(local[r].format[k], resp)],
                     size   |-> 0,
                     time   |-> local[r].now,
                     span   |-> local[r].span])]
          /\ response' = [response EXCEPT ![r] = Some(WrappedResponse(resp))]
          /\ local' = [local EXCEPT ![r] = NoLocal]
  /\ UNCHANGED <<source, phase, inner, calls, clock, request, reader, got, polls,
                 returned, span_calls, log>>

\* the future of handle() is dropped while it awaits the handler: its
\* locals (the clone, the span) are dropped and no StreamLog was ever built
Cancel(r) ==
  /\ pc[r] \in {"HandlerRunning", "BypassRunning"}
  /\ pc' = [pc EXCEPT ![r] = IF pc[r] = "HandlerRunning" THEN "Cancelled"
                                ELSE "BypassCancelled"]
  /\ local' = [local EXCEPT ![r] = NoLocal]
  /\ UNCHANGED <<source, phase, inner, calls, clock, request, handled, response,
                 stream, reader, got, polls, returned, span_calls, log>>

\* ------------------------------------------------------------- poll_read
Pending == [kind |-> "Pending", n |-> 0]
Err     == [kind |-> "Err", n |-> 0]
Ok(n)   == [kind |-> "Ok", n |-> n]

\* what the handler's body may answer to a read into a buffer of k bytes
BodyResults(body, k) ==
  {Pending, Err} \cup
  (IF Len(body) = 0 \/ k = 0 THEN {Ok(0)} ELSE {Ok(n) : n \in 1..Min(k, Len(body))})

\* the size also grows by one on Ready(Err(_))
StreamLogSize_counts_errors(size, res) ==
  size + (IF res.kind = "Ok" THEN res.n ELSE IF res.kind = "Err" THEN 1 ELSE 0)

\* StreamLog::poll_read: the size grows by n on Ready(Ok(n)) only
StreamLogSize(size, res) == size + (IF res.kind = "Ok" THEN res.n ELSE 0)

\* the consumer reads the new body with a buffer of k bytes and the handler's
\* body answers res to the read (if any) that reaches it.  The new Body
\* clamps the buffer to the declared length left; the BufReader reads
\* straight through when it is empty and the buffer is at least its
\* capacity, and otherwise fills its own buffer first and copies from it.
Read(r, k, res) ==
  /\ pc[r] = "Streaming"
  /\ LET st     == Unwrap(stream[r])
         rsp    == Unwrap(response[r])
         room   == IF IsSome(rsp.len)
                   THEN Min(Unwrap(rsp.len) - Len(got[r]), k) ELSE k
         direct == reader[r] = <<>> /\ room >= BufCap
         fill   == reader[r] = <<>> /\ room < BufCap
         want   == IF direct THEN room ELSE BufCap
         data   == SubSeq(st.body, 1, res.n)
         rest   == SubSeq(st.body, res.n + 1, Len(st.body))
     IN /\ room > 0
        /\ IF reader[r] = <<>>
           THEN /\ Len(polls[r]) < MaxPolls
                /\ res \in BodyResults(st.body, want)
                /\ polls' = [polls EXCEPT ![r] = Append(@, res)]
                /\ stream' = [stream EXCEPT ![r] =
                     Some([st EXCEPT !.size = StreamLogSize(@, res), !.body = rest])]
                /\ IF direct
                   THEN /\ got' = [got EXCEPT ![r] = @ \o data]
                        /\ returned' = [returned EXCEPT ![r] = Some(res)]
                        /\ UNCHANGED reader
                   ELSE /\ got' = [got EXCEPT ![r] = @ \o SubSeq(data, 1, Min(room, res.n))]
                        /\ returned' = [returned EXCEPT ![r] =
                             Some(IF res.kind = "Ok" THEN Ok(Min(room, res.n)) ELSE res)]
                        /\ reader' = [reader EXCEPT ![r] =
                             SubSeq(data, Min(room, res.n) + 1, res.n)]
           ELSE /\ res = Ok(0)   \* served from the buffer: the body is not read
                /\ got' = [got EXCEPT ![r] = @ \o SubSeq(reader[r], 1, Min(room, Len(reader[r])))]
                /\ reader' = [reader EXCEPT ![r] =
                     SubSeq(@, Min(room, Len(@)) + 1, Len(@))]
                /\ returned' = [returned EXCEPT ![r] = Some(Ok(Min(room, Len(reader[r]))))]
                /\ UNCHANGED <<polls, stream>>
  /\ UNCHANGED <<source, phase, inner, calls, clock, pc, request, local, handled,
                 response, span_calls, log>>

\* ----------------------------------------------------- StreamLog::drop
\* a drop that emits the line but leaves the StreamLog to be dropped again
Dispose_keeps_stream(r) ==
  /\ pc[r] = "Streaming"
  /\ Len(log) < 3
  /\ LET st == Unwrap(stream[r])
     IN log' = Append(log, [req    |-> r,
                            line   |-> RenderLine(st.format, st.size, st.time, clock),
                            parent |-> st.span])
  /\ UNCHANGED <<source, phase, inner, calls, clock, pc, request, local, handled,
                 response, stream, reader, got, polls, returned, span_calls>>

\* a drop that emits nothing
Dispose_silent(r) ==
  /\ pc[r] = "Streaming"
  /\ stream' = [stream EXCEPT ![r] = None]
  /\ reader' = [reader EXCEPT ![r] = <<>>]
  /\ pc' = [pc EXCEPT ![r] = "Finalized"]
  /\ UNCHANGED <<source, phase, inner, calls, clock, request, local, handled, response,
                 got, polls, returned, span_calls, log>>

\* a drop that emits the line outside the span
Dispose_no_parent(r) ==
  /\ pc[r] = "Streaming"
  /\ LET st == Unwrap(stream[r])
     IN log' = Append(log, [req    |-> r,
                            line   |-> RenderLine(st.format, st.size, st.time, clock),
                            parent |-> None])
  /\ stream' = [stream EXCEPT ![r] = None]
  /\ reader' = [reader EXCEPT ![r] = <<>>]
  /\ pc' = [pc EXCEPT ![r] = "Finalized"]
  /\ UNCHANGED <<source, phase, inner, calls, clock, request, local, handled, response,
                 got, polls, returned, span_calls>>

\* the new body is dropped (consumed to the end, abandoned, or given up
\* after an error): the line is rendered and emitted under the span
Dispose(r) ==
  /\ pc[r] = "Streaming"
  /\ LET st == Unwrap(stream[r])
     IN log' = Append(log, [req    |-> r,
                            line   |-> RenderLine(st.format, st.size, st.time, clock),
                            parent |-> st.span])
  /\ stream' = [stream EXCEPT ![r] = None]
  /\ reader' = [reader EXCEPT ![r] = <<>>]
  /\ pc' = [pc EXCEPT ![r] = "Finalized"]
  /\ UNCHANGED <<source, phase, inner, calls, clock, request, local, handled, response,
                 got, polls, returned, span_calls>>

\* time passes
MaxTicks == 1
Tick ==
  /\ clock < MaxTicks
  /\ clock' = clock + 1
  /\ UNCHANGED <<source, phase, inner, calls, perRequest>>

\* ------------------------------------------------------- modelled inputs
GET  == <<"G","E","T">>
POST == <<"P","O","S","T">>

Request(method, path, query, version, h, remote, peer) ==
  [method |-> method, path |-> path, query |-> query, version |-> version,
   headers |-> [NoHeaders EXCEPT ![<<"h">>] = h],
   remote |-> remote, peer_addr |-> peer]

Requests ==
  { Request(GET,  <<"/","a">>,     None,          None,          None, None, None),
    Request(POST, <<"/","a","b">>, Some(<<"q">>), Some(<<"1">>), Some(<<<<"v">>, <<"w">>>>),
            Some(<<"7">>), Some(<<"8">>)),
    Request(GET,  <<"/","b">>,     None,          None,          Some(<<>>), None, None) }

\* a Response of the handler: the body holds the bytes 1..n; its declared
\* length is known (a fixed body) or not (a streamed body)
Response(status, h, n, known) ==
  [status |-> status, headers |-> [NoHeaders EXCEPT ![<<"h">>] = h],
   body |-> [i \in 1..n |-> i], len |-> IF known THEN Some(n) ELSE None,
   mime |-> "text/plain"]

Responses ==
  { Response(200, None, 1, TRUE),
    Response(404, Some(<<>>), 0, FALSE),
    Response(200, Some(<<<<"v">>, <<"w">>>>), 1, TRUE) }

\* what the handler's body may answer: every result, or only ready successes
AllResults == {Pending, Err} \cup {Ok(n) : n \in 0..MaxBody}
OkResults  == {Ok(n) : n \in 0..MaxBody}

Paths    == { <<"/","a">>, <<"/","b">> }
Patterns == { Pattern(TRUE, <<"/","a">>, FALSE), Pattern(FALSE, <<"b">>, TRUE) }
Labels   == { <<"L">>, <<"N">> }

\* "%b", "%%", "a%Zb", "%U %{h}i %{H}o %s %b" and
\* "%{L}xi%{L}xo %T %D %{E}e%{r}a"
FormatSources ==
  { <<"%","b">>,
    <<"%","%">>,
    <<"a","%","Z","b">>,
    <<"%","U"," ","%","{","h","}","i"," ","%","{","H","}","o"," ","%","s"," ","%","b">>,
    <<"%","{","L","}","x","i","%","{","L","}","x","o"," ","%","T"," ","%","D"," ",
      "%","{","E","}","e","%","{","r","}","a">> }

\* ---------------------------------------------------------- specification
SetupStep ==
  \/ \E path \in Paths : exclude(path)
  \/ \E pat \in Patterns : exclude_regex(pat)
  \/ \E label \in Labels : custom_request_replace(label, "fn_method")
  \/ \E label \in Labels : custom_response_replace(label, "fn_status")
  \/ gen_tracing_span("fn_span")
  \/ Serve

ServeStep(ids, requests, responses, results) ==
  \E r \in ids :
    \/ \E req \in requests : HandleStart(r, req)
    \/ \E resp \in responses : HandlerReturn(r, resp)
    \/ Cancel(r)
    \/ \E k \in 1..MaxUserBuf, res \in results : Read(r, k, res)
    \/ Dispose(r)

Init == InitWith(FormatSources)

Next == SetupStep \/ ServeStep(OneReq, Requests, Responses, OkResults) \/ Tick

Spec == Init /\ [][Next]_vars

\* the body stream in depth: a middleware built by new() alone, one request,
\* bodies of every length, reads that succeed, fail or are pending
StreamSources == { <<"%","b">>, <<"%","s"," ","%","b"," ","%","T">> }
StreamRequests == { Request(GET, <<"/","a">>, None, None, None, None, None) }
StreamResponses == { Response(200, None, n, known) : n \in 0..MaxBody, known \in BOOLEAN }

StreamInit == InitWith(StreamSources)

StreamNext ==
  Serve \/ ServeStep(OneReq, StreamRequests, StreamResponses, AllResults) \/ Tick

StreamSpec == StreamInit /\ [][StreamNext]_vars

\* the body handle() returns is owned by the server, which drops it when it
\* is done with the response or gives it up
LiveStreamSpec == StreamSpec /\ \A r \in ReqIds : WF_vars(Dispose(r))

\* the resolvers in depth: formats with custom units and with a unit of
\* every variant, builder chains of registrations, one request
ResolveSetupStep ==
  \/ \E label \in Labels : custom_request_replace(label, "fn_method")
  \/ \E label \in Labels : custom_response_replace(label, "fn_status")
  \/ Serve

ResolveInit == InitWith(ResolveSources)

ResolveNext ==
  ResolveSetupStep \/ ServeStep(OneReq, Requests, Responses, OkResults) \/ Tick

ResolveSpec == ResolveInit /\ [][ResolveNext]_vars

\* requests in flight together: two requests whose steps interleave, with
\* different paths, answered with different statuses and bodies, under a
\* configuration that may have a span generator and an excluded path
ConcRequests ==
  { Request(GET, <<"/","a">>, None, None, None, None, None),
    Request(GET, <<"/","b">>, None, None, None, None, None) }
ConcResponses == { Response(200, None, 1, TRUE), Response(404, None, 2, TRUE) }

ConcSetupStep ==
  \/ gen_tracing_span("fn_span")
  \/ exclude(<<"/","b">>)
  \/ Serve

ConcInit == InitWith(ConcSources)

ConcNext ==
  \/ ConcSetupStep
  \/ \E r \in ReqIds :
       \/ \E req \in ConcRequests : HandleStart(r, req)
       \/ \E resp \in ConcResponses : HandlerReturn(r, resp)
       \/ \E res \in OkResults : Read(r, BufCap, res)
       \/ Dispose(r)
  \/ Tick

ConcSpec == ConcInit /\ [][ConcNext]_vars

\* the basic example: TracingMiddleware::default(), GET /index answered
\* with status 200 and the body "hello world!", read in one piece, in two
\* halves, or across a pending or failed read
\* Format::default: %a "%r" %s %b "%{Referer}i" "%{User-Agent}i" %T
DefaultSource ==
  <<"%","a"," ","\"","%","r","\""," ","%","s"," ","%","b"," ","\"","%","{",
    "R","e","f","e","r","e","r","}","i","\""," ","\"","%","{","U","s","e","r",
    "-","A","g","e","n","t","}","i","\""," ","%","T">>

HelloWorld ==
  <<"h","e","l","l","o"," ","w","o","r","l","d","!">>

Index == <<"/","i","n","d","e","x">>
UserAgent == <<"u","s","e","r","-","a","g","e","n","t">>

\* a request for /index from a client that names itself "test"
IndexRequest(query, version) ==
  [Request(GET, Index, query, version, None, None, None)
     EXCEPT !.headers[UserAgent] = Some(<<<<"t","e","s","t">>>>)]

ScenarioRequests ==
  { IndexRequest(None, None), IndexRequest(Some(<<"q">>), Some(<<"1">>)) }
ScenarioResponses == { Response(200, None, Len(HelloWorld), TRUE) }
ScenarioResults ==
  { Pending, Err, Ok(0), Ok(Len(HelloWorld) \div 2), Ok(Len(HelloWorld)) }

ScenarioInit == InitWith({DefaultSource})

ScenarioNext ==
  \/ Serve
  \/ \E r \in OneReq :
       \/ \E req \in ScenarioRequests : HandleStart(r, req)
       \/ \E resp \in ScenarioResponses : HandlerReturn(r, resp)
       \/ \E res \in ScenarioResults : Read(r, Len(HelloWorld), res)
       \/ Dispose(r)
  \/ Tick

ScenarioSpec == ScenarioInit /\ [][ScenarioNext]_vars

\* compilation in depth: every format string up to MaxFmtLen over the
\* characters of the braced address form, each served one request that
\* is answered with an empty body
FormatAlphabet == {"%", "{", "}", "a", "r"}
AllFormats == UNION { [1..n -> FormatAlphabet] : n \in 0..MaxFmtLen }

CompileRequests == { Request(GET, <<"/","a">>, None, None, None, None, None) }
CompileResponses == { Response(200, None, 0, TRUE) }

CompileInit == InitWith(AllFormats)

CompileNext ==
  \/ Serve
  \/ \E r \in OneReq :
       \/ \E req \in CompileRequests : HandleStart(r, req)
       \/ \E resp \in CompileResponses : HandlerReturn(r, resp)
       \/ Dispose(r)

CompileSpec == CompileInit /\ [][CompileNext]_vars

\* ------------------------------------------------------------ properties
Streams(r) == pc[r] = "Streaming"
Finalized(r) == pc[r] = "Finalized"
Bypass(r) == pc[r] \in {"BypassRunning", "Bypassed", "BypassCancelled"}

\* the records emitted for request r
Emitted(r) == {i \in 1..Len(log) : log[i].req = r}
LogCount(r) == Cardinality(Emitted(r))
LineOf(r) == log[CHOOSE i \in Emitted(r) : TRUE].line

HasUnit(fmt, kind) == \E k \in 1..Len(fmt) : fmt[k].kind = kind
HasResult(r, kind) == \E i \in 1..Len(polls[r]) : polls[r][i].kind = kind

\* sub occurs in text as a contiguous run
Contains(text, sub) ==
  \E i \in 1..(Len(text) - Len(sub) + 1) : SubSeq(text, i, i + Len(sub) - 1) = sub

\* the sum of the byte counts of the successful reads in a history
RECURSIVE SumOk(_)
SumOk(h) == IF h = <<>> THEN 0
            ELSE (IF Head(h).kind = "Ok" THEN Head(h).n ELSE 0) + SumOk(Tail(h))

\* the sentinel rule for a header lookup
ThreeWay(val) == IF val = None THEN <<"-">>
                 ELSE IF Unwrap(val) = <<>> THEN <<"_">>
                 ELSE Head(Unwrap(val))

\* pat occurs in path as pre \o lit \o post, with pre or post empty when anchored
Matches(pat, path) ==
  \E i \in 0..Len(path) : \E j \in i..Len(path) :
     /\ path = SubSeq(path, 1, i) \o pat.lit \o SubSeq(path, j + 1, Len(path))
     /\ pat.from_start => i = 0
     /\ pat.to_end => j = Len(path)

\* C1: for any request the log line is emitted at most once, over every
\* sequence of handler completion, reads, read errors and disposal; once the
\* stream is disposed no further disposal can emit again.
C1_AtMostOnce == \A r \in ReqIds : LogCount(r) <= 1

C1_Witness == Finalized(1) /\ LogCount(1) = 1 /\ HasResult(1, "Err") /\ HasResult(1, "Ok")

\* C2: once the wrapped body stream of a non-excluded request exists, the
\* log line is eventually emitted, exactly once, however the stream ends.
C2_EventuallyEmitted ==
  \A r \in ReqIds : Streams(r) ~> (Finalized(r) /\ LogCount(r) = 1)

\* abandoned early: finalized with bytes of the body never read
C2_Witness ==
  /\ Finalized(1) /\ LogCount(1) = 1
  /\ Len(got[1]) < Len(Unwrap(handled[1]).body)
  /\ ~HasResult(1, "Err")

\* C3: a non-excluded request whose execution is abandoned, also while the
\* handler is still running, ends with exactly one log emission.
C3_CancelledStillLogged == \A r \in ReqIds : pc[r] = "Cancelled" => LogCount(r) = 1

\* C4: a request is bypassed iff its path is in the exact set or matches a
\* pattern; a bypassed request emits nothing, has no clone, no span, no
\* wrapper and no byte count, and gets the handler's response unwrapped.
C4_BypassIffExcluded ==
  \A r \in ReqIds : pc[r] /= "Idle" =>
    LET path == request[r].path
        excl == \/ \E p \in inner.exclude : p = path
                \/ \E k \in 1..Len(inner.exclude_regex) : Matches(inner.exclude_regex[k], path)
    IN /\ Bypass(r) <=> excl
       /\ Bypass(r) =>
            /\ LogCount(r) = 0
            /\ local[r] = NoLocal /\ stream[r] = None
            /\ polls[r] = <<>> /\ reader[r] = <<>>
            /\ pc[r] = "Bypassed" =>
                 LET h == Unwrap(handled[r])
                     v == Unwrap(response[r])
                 IN /\ ~v.wrapped
                    /\ v.status = h.status /\ v.headers = h.headers
                    /\ v.body = h.body /\ v.len = h.len /\ v.mime = h.mime

\* bypassed through the pattern set, not the exact set
C4_Witness ==
  /\ pc[1] = "Bypassed"
  /\ request[1].path \notin inner.exclude
  /\ Len(inner.exclude_regex) > 0

\* C5: the size rendered at finalization is the sum of the byte counts of
\* the successful reads of the wrapped stream; a failed or pending read
\* leaves the counter unchanged.
C5_SizeIsSumOfOkReads ==
  [][\A r \in ReqIds :
       /\ (Streams(r) /\ pc'[r] = "Streaming") =>
            /\ Unwrap(stream'[r]).size = SumOk(polls'[r])
            /\ (Len(polls'[r]) > Len(polls[r]) /\ polls'[r][Len(polls'[r])].kind /= "Ok")
                 => Unwrap(stream'[r]).size = Unwrap(stream[r]).size
       /\ (Streams(r) /\ pc'[r] = "Finalized") =>
            LET st == Unwrap(stream[r])
            IN /\ \A k \in 1..Len(st.format) : st.format[k].kind = "ResponseSize" =>
                    render(st.format[k], st.size, st.time, clock) = ToDigits(SumOk(polls[r]))
               /\ log'[Len(log')].line =
                    RenderLine(st.format, SumOk(polls[r]), st.time, clock)
    ]_vars

C5_Witness ==
  /\ Finalized(1) /\ HasUnit(inner.format, "ResponseSize")
  /\ HasResult(1, "Err") /\ HasResult(1, "Pending")
  /\ \E i \in 1..Len(polls[1]) : polls[1][i].kind = "Ok" /\ polls[1][i].n > 0

\* C6: when the consumer abandons the body after reading part of it, the
\* logged size is the number of bytes the consumer read.
C6_SizeIsBytesConsumerRead ==
  \A r \in ReqIds :
    ( /\ Finalized(r)
      /\ inner.format = <<Unit("ResponseSize")>>
      /\ 0 < Len(got[r]) /\ Len(got[r]) < Len(Unwrap(handled[r]).body) )
    => LineOf(r) = ToDigits(Len(got[r]))

\* C7: the response phase resolves every ResponseHeader unit by the
\* three-way rule: absent "-", empty value list "_", else the first value.
C7_ResponseHeaderThreeWay ==
  \A r \in ReqIds : Streams(r) =>
    \A k \in 1..Len(inner.format) : inner.format[k].kind = "ResponseHeader" =>
      Unwrap(stream[r]).format[k] =
        Str(ThreeWay(Header(Unwrap(handled[r]).headers, inner.format[k].text)))

\* C8: the request phase resolves every RequestHeader unit to the first
\* value when there is one, "-" when the header is absent and "_" when it
\* is present with an empty value list.
C8_RequestHeaderThreeWay ==
  \A r \in ReqIds : pc[r] = "HandlerRunning" =>
    \A k \in 1..Len(inner.format) : inner.format[k].kind = "RequestHeader" =>
      local[r].format[k] = Str(ThreeWay(Header(request[r].headers, inner.format[k].text)))

C8_Witness ==
  /\ pc[1] = "HandlerRunning"
  /\ HasUnit(inner.format, "RequestHeader")
  /\ request[1].headers[<<"h">>] = Some(<<>>)
  /\ \E k \in 1..Len(local[1].format) : local[1].format[k] = Str(<<"_">>)

\* C9: a format string with % before an unrecognized letter (%Z) compiles,
\* and the rendered line contains the text %Z unchanged.
C9_UnknownDirectiveKept ==
  (\E i \in 1..(Len(source) - 1) : source[i] = "%" /\ source[i + 1] = "Z") =>
    /\ phase /= "panicked"
    /\ \A r \in ReqIds : Finalized(r) => Contains(LineOf(r), <<"%","Z">>)

\* C10: %% compiles to the single unit Percent, which renders as one "%".
C10_PercentPercent ==
  source = <<"%","%">> =>
    /\ inner.format = <<Unit("Percent")>>
    /\ \A r \in ReqIds : Finalized(r) => LineOf(r) = <<"%">>

\* whether the builder chain registered a resolver through method for label
Registered(method, label) ==
  \E i \in 1..Len(calls) : calls[i] = Call(method, label)

\* C11: after a request resolver has been registered for label L, every
\* CustomRequest unit labelled L is resolved, for a non-excluded request, to
\* exactly what the resolver returns for that request.
C11_EveryLabelledUnitResolved ==
  \A r \in ReqIds : pc[r] = "HandlerRunning" =>
    \A k \in 1..Len(inner.format) :
      ( /\ inner.format[k].kind = "CustomRequest"
        /\ Registered("custom_request_replace", inner.format[k].text) )
      => local[r].format[k] = Str(CallRequestFn("fn_method", request[r]))

\* the unit kind a registration method looks for
KindFor(method) ==
  IF method = "custom_request_replace" THEN "CustomRequest" ELSE "CustomResponse"

\* the template has a unit of that kind with that label
HasLabel(fmt, kind, label) ==
  \E k \in 1..Len(fmt) : fmt[k].kind = kind /\ fmt[k].text = label

\* the configuration a chain of registrations builds from cfg
RECURSIVE ApplyCalls(_, _)
ApplyCalls(cfg, cs) ==
  IF cs = <<>> THEN cfg
  ELSE ApplyCalls(
         [cfg EXCEPT !.format =
            Replace(@, KindFor(Head(cs).method), Head(cs).arg,
                    IF Head(cs).method = "custom_request_replace"
                    THEN "fn_method" ELSE "fn_status")],
         Tail(cs))

\* the chain with the registrations for labels the template lacks left out
WithoutMisses(cs) ==
  SelectSeq(cs, LAMBDA c : HasLabel(FormatNew(source), KindFor(c.method), c.arg))

\* C12: registering a request or response resolver for a label the template
\* has no custom unit of the matching kind for does not abort and leaves the
\* template and every binding as they were; the configuration that serves
\* requests is the one the chain builds with those calls left out.
C12_MissingLabelIsNoOp ==
  [][ /\ \A label \in Labels, method \in {"custom_request_replace", "custom_response_replace"} :
           ( /\ calls' = Append(calls, Call(method, label))
             /\ ~HasLabel(inner.format, KindFor(method), label) )
           => inner' = inner /\ phase' = phase
      /\ IF calls' = calls
         THEN inner' = inner
         ELSE inner' = ApplyCalls(New(source), WithoutMisses(calls'))
    ]_vars

\* a resolver bound to L, then a registration for the absent label N, and
\* a request served and logged under that configuration
C12_Witness ==
  /\ calls = <<Call("custom_request_replace", <<"L">>), Call("custom_request_replace", <<"N">>)>>
  /\ \E k \in 1..Len(inner.format) : inner.format[k].fn = Some("fn_method")
  /\ Finalized(1) /\ LogCount(1) = 1

\* C13: running the request phase again over a clone that is already
\* request-resolved changes no unit, whatever request and entry time it is
\* given, and finds no resolver left to call; the line rendered from the
\* clone resolved twice is the line rendered from the clone resolved once.
C13_RequestPhaseIdempotent ==
  \A r \in ReqIds : pc[r] = "HandlerRunning" =>
    LET once  == local[r].format
        twice == [k \in 1..Len(once) |-> render_request(once[k], local[r].now, request[r])]
    IN /\ twice = once
       /\ \A k \in 1..Len(once) :
            /\ once[k].kind /= "CustomRequest"
            /\ \A req \in Requests, now \in 0..MaxTicks :
                 render_request(once[k], now, req) = once[k]
       /\ RenderLine(twice, 0, local[r].now, clock) = RenderLine(once, 0, local[r].now, clock)

\* a clone with a resolved header, a resolved custom unit and a resolved
\* unit of every other request variant
C13_Witness ==
  /\ pc[1] = "HandlerRunning"
  /\ source = AllKindsSource
  /\ \E k \in 1..Len(inner.format) :
       inner.format[k].kind = "CustomRequest" /\ inner.format[k].fn = Some("fn_method")
  /\ request[1].headers[<<"h">>] = Some(<<<<"v">>, <<"w">>>>)

\* "- @0 GET /a ? GET ? - /a - - - 200 - - - ": the line of AllKindsSource
\* up to the size, for a request and a response that carry nothing optional
AllMissingPrefix ==
  <<"-"," ","@","0"," ","G","E","T"," ","/","a"," ","?"," ","G","E","T"," ","?"," ",
    "-"," ","/","a"," ","-"," ","-"," ","-"," ","2","0","0"," ","-"," ","-"," ","-"," ">>

\* C14: an absent header, an unbound custom request or response resolver, an
\* unset environment variable, an absent query and an unavailable remote or
\* peer address each resolve to "-"; the request is not aborted, and when
\* all of them are missing at once the emitted line shows "-" in each place.
C14_MissingDataGivesDash ==
  /\ source \in ResolveSources => phase /= "panicked"
  /\ \A r \in ReqIds :
       /\ pc[r] = "HandlerRunning" =>
            \A k \in 1..Len(inner.format) :
              LET u == inner.format[k]
                  q == request[r]
                  missing ==
                    \/ u.kind = "RequestHeader" /\ Header(q.headers, u.text) = None
                    \/ u.kind = "CustomRequest" /\ u.fn = None
                    \/ u.kind = "Query" /\ q.query = None
                    \/ u.kind = "RemoteAddr" /\ q.remote = None
                    \/ u.kind = "RealIPRemoteAddr" /\ q.peer_addr = None
              IN missing => local[r].format[k] = Str(<<"-">>)
       /\ Streams(r) =>
            \A k \in 1..Len(inner.format) :
              LET u == inner.format[k]
                  missing ==
                    \/ u.kind = "ResponseHeader"
                         /\ Header(Unwrap(handled[r]).headers, u.text) = None
                    \/ u.kind = "CustomResponse" /\ u.fn = None
              IN /\ missing => Unwrap(stream[r]).format[k] = Str(<<"-">>)
                 /\ (u.kind = "EnvironHeader" /\ EnvVar(u.text) = None) =>
                      Unwrap(stream[r]).format[k] = u
       /\ ( /\ Finalized(r) /\ source = AllKindsSource /\ calls = <<>>
            /\ request[r] = Request(GET, <<"/","a">>, None, None, None, None, None)
            /\ Unwrap(handled[r]).headers = NoHeaders )
          => SubSeq(LineOf(r), 1, Len(AllMissingPrefix)) = AllMissingPrefix

\* everything optional missing at once, and the line emitted all the same
C14_Witness ==
  /\ Finalized(1) /\ LogCount(1) = 1
  /\ source = AllKindsSource /\ calls = <<>>
  /\ request[1] = Request(GET, <<"/","a">>, None, None, None, None, None)
  /\ Unwrap(handled[1]).headers = NoHeaders
  /\ Len(got[1]) = 1

\* C15: the body handed to the client passes the handler's body through:
\* the bytes delivered are the handler's bytes in order with none lost, the
\* declared length and the content type are the handler's, and an error (or
\* a pending read) of the handler's body reaches the consumer as it is.
C15_TransparentBody ==
  [][\A r \in ReqIds :
       /\ pc'[r] \in {"Streaming", "Finalized"} =>
            LET h == Unwrap(handled'[r])
                v == Unwrap(response'[r])
            IN /\ v.len = h.len /\ v.mime = h.mime
               /\ v.status = h.status /\ v.headers = h.headers
               /\ got'[r] = SubSeq(h.body, 1, Len(got'[r]))
               /\ pc'[r] = "Streaming" =>
                    got'[r] \o reader'[r] \o Unwrap(stream'[r]).body = h.body
       /\ (Streams(r) /\ Len(polls'[r]) > Len(polls[r])) =>
            LET res == polls'[r][Len(polls'[r])]
            IN /\ res.kind /= "Ok" => returned'[r] = Some(res) /\ got'[r] = got[r]
               /\ res.kind = "Ok" =>
                    /\ Unwrap(returned'[r]).kind = "Ok"
                    /\ Len(got'[r]) = Len(got[r]) + Unwrap(returned'[r]).n
    ]_vars

\* a body read to its end across an error and a pending read
C15_Witness ==
  /\ Streams(1)
  /\ HasResult(1, "Err") /\ HasResult(1, "Pending")
  /\ Len(got[1]) = 2 /\ got[1] = Unwrap(handled[1]).body
  /\ Unwrap(response[1]).len = Some(2)

\* the calls of the span generator made for request r
SpanCallsFor(r) == {i \in 1..Len(span_calls) : span_calls[i] = r}

\* C16: a configured span generator is called exactly once for each
\* non-excluded request, in the step that precedes the handler, and never
\* otherwise; the log record's parent is the span that call returned.
\* Without a generator no call is made and the record has no parent.
C16_SpanOncePerRequest ==
  [][ /\ \A r \in ReqIds :
           /\ (pc[r] = "Idle" /\ pc'[r] = "HandlerRunning") =>
                IF IsSome(inner.gen_tracing_span)
                THEN /\ span_calls' = Append(span_calls, r)
                     /\ local'[r].span = Some(Len(span_calls'))
                ELSE /\ span_calls' = span_calls
                     /\ local'[r].span = None
           /\ pc[r] = "HandlerRunning" =>
                Cardinality(SpanCallsFor(r)) = IF IsSome(inner.gen_tracing_span) THEN 1 ELSE 0
           /\ (pc[r] = "Idle" \/ Bypass(r)) => SpanCallsFor(r) = {}
           /\ Cardinality(SpanCallsFor(r)) <= 1
           /\ (Streams(r) /\ pc'[r] = "Finalized") =>
                LET rec == log'[Len(log')]
                IN /\ rec.req = r
                   /\ IF IsSome(inner.gen_tracing_span)
                      THEN IsSome(rec.parent) /\ SpanCallsFor(r) = {Unwrap(rec.parent)}
                      ELSE rec.parent = None
      /\ (\A r \in ReqIds : ~(pc[r] = "Idle" /\ pc'[r] = "HandlerRunning"))
           => span_calls' = span_calls
    ]_vars

\* two requests under a generator, logged in the reverse of the order
\* their spans were made, each under its own span
C16_Witness ==
  /\ IsSome(inner.gen_tracing_span)
  /\ span_calls = <<1, 2>>
  /\ Len(log) = 2
  /\ log[1].req = 2 /\ log[1].parent = Some(2)
  /\ log[2].req = 1 /\ log[2].parent = Some(1)

\* - "GET /index ?" 200 12 "-" "test" and a space
ScenarioLine ==
  <<"-"," ","\"","G","E","T"," ","/","i","n","d","e","x"," ","?","\""," ","2",
    "0","0"," ","1","2"," ","\"","-","\""," ","\"","t","e","s","t","\""," ">>

\* - "GET /index?q 1" 200 12 "-" "test" and a space
ScenarioLineWithQuery ==
  <<"-"," ","\"","G","E","T"," ","/","i","n","d","e","x","?","q"," ","1","\"",
    " ","2","0","0"," ","1","2"," ","\"","-","\""," ","\"","t","e","s","t",
    "\""," ">>

\* C17: under the default format a GET for /index without query, Referer,
\* version or remote address, with User-Agent test, answered 200 with a
\* 12-byte body that is read to its end, is logged as
\* - "GET /index ?" 200 12 "-" "test" followed by the elapsed seconds; with
\* a query and a version the request line carries them instead.
C17_DefaultFormatLine ==
  [][\A r \in ReqIds :
       ( /\ Streams(r) /\ pc'[r] = "Finalized"
         /\ source = DefaultSource
         /\ Unwrap(handled[r]) = Response(200, None, Len(HelloWorld), TRUE)
         /\ Len(got[r]) = Len(HelloWorld) )
       => LET line    == log'[Len(log')].line
              elapsed == SecondsText(clock - Unwrap(stream[r]).time)
          IN /\ request[r] = IndexRequest(None, None) => line = ScenarioLine \o elapsed
             /\ request[r] = IndexRequest(Some(<<"q">>), Some(<<"1">>))
                  => line = ScenarioLineWithQuery \o elapsed
    ]_vars

\* the scenario's request logged after its body was read in two halves,
\* one tick after it entered
C17_Witness ==
  /\ Finalized(1) /\ LogCount(1) = 1
  /\ request[1] = IndexRequest(None, None)
  /\ Len(got[1]) = Len(HelloWorld)
  /\ polls[1] = <<Ok(Len(HelloWorld) \div 2), Ok(Len(HelloWorld) \div 2)>>
  /\ LineOf(1) = ScenarioLine \o SecondsText(1)

\* the variants each phase resolves, and those left to the final render
RequestKinds ==
  {"RequestLine", "Method", "Version", "Query", "UrlPath", "RequestTime",
   "RequestHeader", "RemoteAddr", "RealIPRemoteAddr", "CustomRequest"}
ResponseKinds == {"ResponseStatus", "ResponseHeader", "CustomResponse"}
RenderKinds == {"Str", "Percent", "ResponseSize", "Time", "TimeMillis", "EnvironHeader"}

KindsOf(fmt) == {fmt[k].kind : k \in 1..Len(fmt)}

\* the steps a request may take: forward by one stage, or, when handle()
\* is dropped while the handler runs, to a stop at the stage it is in
Successors(p) ==
  CASE p = "Idle"           -> {"HandlerRunning", "BypassRunning"}
    [] p = "HandlerRunning" -> {"Streaming", "Cancelled"}
    [] p = "Streaming"      -> {"Finalized"}
    [] p = "BypassRunning"  -> {"Bypassed", "BypassCancelled"}
    [] OTHER                -> {}

\* C18: a non-excluded request goes from created to request-resolved (the
\* handler running), to response-resolved and streaming (the handler has
\* returned, nothing read yet), to finalized, one stage at a time and never
\* back; the request phase is complete while the handler runs and the
\* response phase is not begun; the response phase is complete before the
\* first read; a line is emitted only by the step that leaves Streaming, and
\* none after Finalized or Bypassed.
C18_StagesInOrder ==
  [][ /\ \A r \in ReqIds :
           /\ pc'[r] /= pc[r] => pc'[r] \in Successors(pc[r])
           /\ pc'[r] = "HandlerRunning" =>
                /\ KindsOf(local'[r].format) \cap RequestKinds = {}
                /\ \A k \in 1..Len(inner.format) :
                     inner.format[k].kind \in ResponseKinds =>
                       local'[r].format[k] = inner.format[k]
                /\ handled'[r] = None /\ stream'[r] = None
           /\ (pc[r] = "HandlerRunning" /\ pc'[r] = "Streaming") =>
                /\ IsSome(handled'[r])
                /\ KindsOf(Unwrap(stream'[r]).format) \cap (RequestKinds \cup ResponseKinds) = {}
                /\ polls'[r] = <<>> /\ got'[r] = <<>> /\ returned'[r] = None
           /\ polls'[r] /= polls[r] =>
                /\ Streams(r)
                /\ KindsOf(Unwrap(stream[r]).format) \cap ResponseKinds = {}
           /\ LogCount(r)' /= LogCount(r) =>
                /\ Streams(r) /\ pc'[r] = "Finalized"
                /\ LogCount(r)' = LogCount(r) + 1
           /\ pc[r] \in {"Finalized", "Bypassed"} => LogCount(r)' = LogCount(r)
      /\ log' /= log => \E r \in ReqIds : Streams(r) /\ pc'[r] = "Finalized"
    ]_vars

\* a request with units of both phases that went through every stage,
\* with a read of the body before it was finalized
C18_Witness ==
  /\ Finalized(1) /\ LogCount(1) = 1
  /\ KindsOf(inner.format) \cap RequestKinds /= {}
  /\ KindsOf(inner.format) \cap ResponseKinds /= {}
  /\ Len(got[1]) > 0

\* C19: from the creation of the body wrapper to finalization every unit of
\* the clone is a Str or a render-time variant.  The request phase turns
\* each request variant, and only those, into a Str; the response phase
\* does so for each response variant, and only those; reads change no
\* unit; the render-time variants are as the template has them until the
\* drop renders them, so no unit reaches the final render unresolved.
C19_ResolvedBeforeStreaming ==
  [][\A r \in ReqIds :
       /\ (pc[r] = "Idle" /\ pc'[r] = "HandlerRunning") =>
            \A k \in 1..Len(inner.format) :
              IF inner.format[k].kind \in RequestKinds
              THEN local'[r].format[k].kind = "Str"
              ELSE local'[r].format[k] = inner.format[k]
       /\ (pc[r] = "HandlerRunning" /\ pc'[r] = "Streaming") =>
            \A k \in 1..Len(inner.format) :
              IF local[r].format[k].kind \in ResponseKinds
              THEN Unwrap(stream'[r]).format[k].kind = "Str"
              ELSE Unwrap(stream'[r]).format[k] = local[r].format[k]
       /\ pc'[r] = "Streaming" =>
            LET f == Unwrap(stream'[r]).format
            IN /\ Len(f) = Len(inner.format)
               /\ KindsOf(f) \subseteq RenderKinds
               /\ \A k \in 1..Len(f) :
                    /\ inner.format[k].kind \in RenderKinds => f[k] = inner.format[k]
                    /\ inner.format[k].kind \notin RenderKinds => f[k].kind = "Str"
       /\ (Streams(r) /\ pc'[r] = "Streaming") =>
            Unwrap(stream'[r]).format = Unwrap(stream[r]).format
       /\ (Streams(r) /\ pc'[r] = "Finalized") =>
            KindsOf(Unwrap(stream[r]).format) \subseteq RenderKinds
    ]_vars

\* a wrapper over a clone with units of every phase, after a read
C19_Witness ==
  /\ Streams(1) /\ source = AllKindsSource
  /\ Len(got[1]) > 0
  /\ \E k \in 1..Len(inner.format) : inner.format[k].fn /= None
  /\ {"Str", "ResponseSize", "Time", "EnvironHeader"}
       \subseteq KindsOf(Unwrap(stream[1]).format)

\* everything the model keeps for request r alone
OwnState(r) ==
  <<pc[r], request[r], local[r], handled[r], response[r], stream[r], reader[r],
    got[r], polls[r], returned[r]>>

\* the line of request r as the template, its own request and response, its
\* own successful reads and its own entry time determine it
OwnLine(r) ==
  LET st == Unwrap(stream[r])
      f  == [k \in 1..Len(inner.format) |->
               render_response(render_request(inner.format[k], st.time, request[r]),
                               Unwrap(handled[r]))]
  IN RenderLine(f, SumOk(polls[r]), st.time, clock)

\* C20: however the steps of two requests interleave, serving a request
\* changes nothing of the shared configuration and nothing the other
\* request owns, and the line emitted for a request is the one its own
\* request, response, reads and entry time give under that configuration.
C20_RequestsIsolated ==
  [][ /\ phase = "serving" => inner' = inner /\ calls' = calls
      /\ \A r \in ReqIds :
           /\ OwnState(r)' /= OwnState(r) =>
                \A s \in ReqIds \ {r} :
                  /\ OwnState(s)' = OwnState(s)
                  /\ LogCount(s)' = LogCount(s)
           /\ (Streams(r) /\ pc'[r] = "Finalized") =>
                /\ Len(log') = Len(log) + 1
                /\ log'[Len(log')].req = r
                /\ log'[Len(log')].line = OwnLine(r)
                /\ \A i \in 1..Len(log) : log'[i] = log[i]
    ]_vars

\* two requests for different paths, answered differently, both read from
\* while the other was in flight, and logged in the reverse order
C20_Witness ==
  /\ Len(log) = 2 /\ log[1].req = 2 /\ log[2].req = 1
  /\ request[1].path /= request[2].path
  /\ Unwrap(handled[1]).status /= Unwrap(handled[2]).status
  /\ SumOk(polls[1]) = 1 /\ SumOk(polls[2]) = 2
  /\ log[1].line /= log[2].line

\* the part of the format string a span covers
SpanText(s, span) == SubSeq(s, span.from, span.to)

HasPercent(s) == \E i \in 1..Len(s) : s[i] = "%"

\* C21: compilation keeps the order of the source and every literal run.
\* The units stand one for one, in order, for parts of the format string
\* that follow each other without gap or overlap from its first character
\* to its last, so that the parts put together are the format string; a
\* part outside any directive is kept as a Str of exactly that text; and a
\* format string without % is rendered as itself.
C21_OrderAndLiteralsKept ==
  phase /= "panicked" =>
    LET s     == source
        units == inner.format
        spans == FormatSpans(s)
    IN /\ Len(units) = Len(spans)
       /\ Concat([k \in 1..Len(spans) |-> SpanText(s, spans[k])]) = s
       /\ \A k \in 1..Len(spans) :
            /\ spans[k].from <= spans[k].to
            /\ spans[k].from = IF k = 1 THEN 1 ELSE spans[k - 1].to + 1
            /\ k = Len(spans) => spans[k].to = Len(s)
            /\ IF s[spans[k].from] = "%"
               THEN units[k] = MatchToken(MatchAt(s, spans[k].from))
               ELSE /\ units[k] = Str(SpanText(s, spans[k]))
                    /\ ~HasPercent(SpanText(s, spans[k]))
       /\ ~HasPercent(s) =>
            /\ units = IF s = <<>> THEN <<>> ELSE <<Str(s)>>
            /\ \A r \in ReqIds : Finalized(r) => LineOf(r) = s

\* "a%ar": text before and after a directive, compiled in that order
\* and rendered for a request without a remote address
C21_Witness ==
  /\ source = <<"a","%","a","r">>
  /\ inner.format = <<Str(<<"a">>), Unit("RemoteAddr"), Str(<<"r">>)>>
  /\ Finalized(1) /\ LineOf(1) = <<"a","-","r">>

\* the braced address form with its name: %{NAME}a starts at i in s
BracedAddrAt(s, i) ==
  /\ CharAt(s, i) = "%" /\ CharAt(s, i + 1) = "{"
  /\ NameEnd(s, i + 2) > i + 2
  /\ CharAt(s, NameEnd(s, i + 2)) = "}"
  /\ CharAt(s, NameEnd(s, i + 2) + 1) = "a"

BracedName(s, i) == SubSeq(s, i + 2, NameEnd(s, i + 2) - 1)

\* C22: a format string with %{NAME}a, NAME other than r, does not abort
\* setup: it compiles; and RealIPRemoteAddr comes from %{r}a alone.
C22_BracedAddrFailSoft ==
  /\ (\E i \in 1..Len(source) : BracedAddrAt(source, i) /\ BracedName(source, i) /= <<"r">>)
       => phase /= "panicked"
  /\ phase /= "panicked" =>
       \A k \in 1..Len(FormatSpans(source)) :
         inner.format[k].kind = "RealIPRemoteAddr" =>
           SpanText(source, FormatSpans(source)[k]) = <<"%","{","r","}","a">>

====
